---- MODULE Spec2Model ----
(***************************************************************************)
(* State-machine model of the argparse package (src/argparse.go): the      *)
(* registration API of ArgParser, the pflag.FlagSet it embeds, and         *)
(* ParseArgs with its validators.                                          *)
(*                                                                         *)
(* Pointers are modelled as cell names; NIL is the nil pointer.  A panic   *)
(* ends the program as os.Exit does: `ret` records it and no action is     *)
(* enabled afterwards.  A panicking call changes nothing but `op` and      *)
(* `ret`, so a caller that recovers continues from the state before it.    *)
(***************************************************************************)
EXTENDS Integers, Sequences, FiniteSets, TLC

VARIABLES
    flags,              \* pflag.FlagSet.formal: name -> [typ, cell, def, changed]
    parsed,             \* pflag.FlagSet.parsed, read through Parsed()
    args,               \* pflag.FlagSet.args, read through Args()
    Error,              \* ArgParser.Error
    command,            \* ArgParser.command        (*Command, a cell or NIL)
    commandName,        \* ArgParser.commandName    (*string, a cell or NIL)
    commandOptions,     \* ArgParser.commandOptions (*[]string, a cell or NIL)
    commandArgs,        \* ArgParser.commandArgs
    denyEmpty,          \* ArgParser.denyEmpty
    pos,                \* ArgParser.pos
    posN,               \* ArgParser.posN: <<>> is nil, <<r>> points to r
    mutuallyExclusives, \* ArgParser.mutuallyExclusives
    required,           \* ArgParser.required
    allowedOptions,     \* ArgParser.allowedOptions
    allowedRegexps,     \* ArgParser.allowedRegexps
    mem,                \* the caller's string variables (and pflag's own), by cell
    lists,              \* the caller's []string variables, by cell
    cmdVar,             \* the caller's Command variable bound by CommandInit
    base,               \* the BaseCommand objects: [impl, name, ArgP, data, errs]; ArgP 0 is nil
    calls,              \* per implementation, how often Args() and Command() ran
    run,                \* the Run in progress: <<>>, or <<[cmd, opts]>> while in Args()
    parsers,            \* the number of parsers constructed so far
    op,                 \* the last operation called
    ret                 \* how that call ended: [kind, msg]

table == <<command, commandName, commandOptions, commandArgs, denyEmpty, pos, posN,
           mutuallyExclusives, required, allowedOptions, allowedRegexps>>

vars == <<flags, parsed, args, Error, command, commandName, commandOptions,
          commandArgs, denyEmpty, pos, posN, mutuallyExclusives, required,
          allowedOptions, allowedRegexps, mem, lists, cmdVar, base, calls, run,
          parsers, op, ret>>

\* The state of the command objects and of the Run in progress.
commands == <<base, calls, run, parsers>>

(***************************************************************************)
(* Universes of the caller's inputs.                                       *)
(***************************************************************************)
NIL == "nil"
NoErr == "<nil>"

\* The number of registrations (rules, positionals, commands) made on a parser.
MaxRegs == 3

FlagNames == {"a", "b"}
FlagDefaults == {"", "d"}
FlagCell(name) == "v" \o name

RuleNames == {"", "a", "b", "p", "help", "u"}
NameLists == {<<>>, <<"a">>, <<"a", "a">>, <<"a", "b">>, <<"b", "a">>, <<"a", "u">>,
              <<"", "a">>, <<"a", "b", "help">>, <<"a", "b", "a">>}

PosNames == {"", "a", "p", "q"}
PosCells == {"vp", "vq"}
PosNNames == {"", "p", "n"}
PosNCells == {"ln"}
MinNs == {-1, 0, 1, 2}
MaxNs == {-2, -1, 0, 1}

TargetCells == {"va", "vp"}
OptionLists == {<<"x", "y">>}
Regexps == {"^x", "("}

CommandNames == {"", "run", "go"}
Impls == {"c1", "c2"}
OptionsTargets == {NIL, "copts"}

StrCells == {"va", "vb", "vp", "vq", "vhelp", "cname"}
ListCells == {"ln", "copts"}

Flag(n, v) == [kind |-> "flag", name |-> n, val |-> v]
Arg(v) == [kind |-> "arg", name |-> "", val |-> v]
\* What ParseArgs is given: all the shapes of argument lists the validators tell apart.
ArgLists ==
    {<<>>,
     <<Arg("x")>>, <<Arg("run")>>, <<Arg("")>>,
     <<Flag("a", "x")>>, <<Flag("a", "")>>, <<Flag("b", "z")>>,
     <<Flag("help", "true")>>, <<Flag("u", "x")>>,
     <<Arg("x"), Arg("y")>>, <<Arg("run"), Arg("y")>>, <<Arg("go"), Arg("x"), Arg("y")>>,
     <<Flag("a", "x"), Flag("b", "z")>>, <<Flag("a", "z"), Arg("x")>>,
     <<Flag("a", "x"), Arg("run")>>, <<Flag("a", "x"), Arg("x"), Arg("y")>>,
     <<Arg("x"), Arg("y"), Arg("w")>>,
     <<Flag("a", "x"), Flag("u", "x")>>, <<Flag("u", "x"), Flag("help", "true")>>,
     <<Flag("help", "true"), Arg("x"), Flag("u", "x")>>}

\* What ParseArgs is given where only its having been called matters.
FewArgLists == {<<>>, <<Arg("x")>>, <<Flag("a", "x")>>, <<Flag("u", "x")>>}

\* What ParseArgs is given by a caller that registered commands.
CommandArgLists ==
    {<<>>, <<Flag("a", "x")>>, <<Flag("u", "x")>>, <<Arg("x")>>, <<Arg("run")>>,
     <<Arg("run"), Arg("y")>>, <<Arg("go"), Arg("x"), Arg("y")>>,
     <<Flag("a", "x"), Arg("run")>>}

\* The inputs of a caller whose registrations are meant to succeed.
GoodNameLists == {<<"a", "b">>, <<"b", "a">>}
GoodRuleNames == {"a", "b", "p", "help"}
GoodCommandNames == {"run", "go"}
GoodPosNames == {"p", "q"}
GoodPosNNames == {"n"}
GoodBounds == {<<0, -1>>, <<1, -1>>, <<1, 1>>}
GoodRegexps == {"^x"}

(***************************************************************************)
(* Results of a call.                                                      *)
(***************************************************************************)
Returned == [kind |-> "return", msg |-> NoErr]
Failed(e) == [kind |-> "return", msg |-> e]
Panicked(m) == [kind |-> "panic", msg |-> m]

Running == ret.kind = "return"

\* The number of rules, positionals and commands registered so far.
Registered ==
    Len(commandArgs) + Len(denyEmpty) + Len(pos)
    + Len(posN) + Len(mutuallyExclusives) + Len(required) + Len(allowedOptions)
    + Len(allowedRegexps) + (IF command = NIL THEN 0 ELSE 1)

Budget == Registered < MaxRegs

\* The number of flags the caller defined.
Defined == Cardinality(DOMAIN flags) - 1

\* A caller that makes MaxRegs calls at most, its flag definitions included.
Frugal == Registered + Defined < MaxRegs

Range(s) == {s[i] : i \in DOMAIN s}

(***************************************************************************)
(* NewArgParser: the state after construction.  Only -h/--help is defined. *)
(***************************************************************************)
Init ==
    /\ flags = [n \in {"help"} |-> [typ |-> "bool", cell |-> "vhelp", def |-> "false", changed |-> FALSE]]
    /\ parsed = FALSE
    /\ args = <<>>
    /\ Error = NoErr
    /\ command = NIL
    /\ commandName = NIL
    /\ commandOptions = NIL
    /\ commandArgs = <<>>
    /\ denyEmpty = <<>>
    /\ pos = <<>>
    /\ posN = <<>>
    /\ mutuallyExclusives = <<>>
    /\ required = <<>>
    /\ allowedOptions = <<>>
    /\ allowedRegexps = <<>>
    /\ mem = [c \in StrCells |-> IF c = "vhelp" THEN "false" ELSE ""]
    /\ lists = [c \in ListCells |-> <<>>]
    /\ cmdVar = NIL
    /\ base = [c \in Impls |-> [impl |-> NIL, name |-> "", ArgP |-> 0,
                                 data |-> NIL, errs |-> <<>>]]
    /\ calls = [i \in Impls |-> [Args |-> 0, Command |-> 0]]
    /\ run = <<>>
    /\ parsers = 1
    /\ op = "NewArgParser"
    /\ ret = Returned

(***************************************************************************)
(* The embedded pflag.FlagSet.                                             *)
(***************************************************************************)
\* FlagSet.Lookup(name) != nil
Lookup(name) == name \in DOMAIN flags

\* flag.Value.Type() of a defined flag
FlagType(name) == flags[name].typ

\* FlagSet.StringVarP(&cell, name, "", value, usage): panics when the name is taken.
DefineFlag(name, value) ==
    /\ Running
    /\ op' = "StringVarP"
    /\ IF Lookup(name)
       THEN /\ ret' = Panicked("flag redefined")
            /\ UNCHANGED <<flags, mem>>
       ELSE /\ flags' = [n \in DOMAIN flags \cup {name} |->
                            IF n = name
                            THEN [typ |-> "string", cell |-> FlagCell(name),
                                  def |-> value, changed |-> FALSE]
                            ELSE flags[n]]
            /\ mem' = [mem EXCEPT ![FlagCell(name)] = value]
            /\ ret' = Returned
    /\ UNCHANGED <<parsed, args, Error, table, lists, cmdVar>>
    /\ UNCHANGED commands

\* Whether some fixed positional carries the name (the loops over p.pos).
PosNamed(name) == \E i \in DOMAIN pos : pos[i].name = name

(***************************************************************************)
(* CommandInit and Command.  A panic message is kept without the prefix    *)
(* "<Op>(<args>): cannot be defined", which `op` stands for.               *)
(***************************************************************************)
CommandInitPanic ==
    IF command # NIL THEN "as CommandInit() has already been defined" ELSE ""

CommandInit(commandTarget, nameTarget, optionsTarget) ==
    /\ Running
    /\ Budget
    /\ op' = "CommandInit"
    /\ IF CommandInitPanic # ""
       THEN /\ ret' = Panicked(CommandInitPanic)
            /\ UNCHANGED <<command, commandName, commandOptions>>
       ELSE /\ command' = commandTarget
            /\ commandName' = nameTarget
            /\ commandOptions' = optionsTarget
            /\ ret' = Returned
    /\ UNCHANGED <<flags, parsed, args, Error, commandArgs, denyEmpty, pos, posN,
                   mutuallyExclusives, required, allowedOptions, allowedRegexps,
                   mem, lists, cmdVar>>
    /\ UNCHANGED commands

\* Command without the loop over the registered names.
CommandPanicSameName(name) ==
    IF name = "" THEN "with empty name"
    ELSE IF command = NIL THEN "as CommandInit() has not been defined"
    ELSE IF Len(pos) > 0 THEN "as StringPosVar() has been defined"
    ELSE IF posN # <<>> THEN "as StringPosNVar() has been defined"
    ELSE ""

CommandPanic(name) ==
    IF name = "" THEN "with empty name"
    ELSE IF command = NIL THEN "as CommandInit() has not been defined"
    ELSE IF Len(pos) > 0 THEN "as StringPosVar() has been defined"
    ELSE IF posN # <<>> THEN "as StringPosNVar() has been defined"
    ELSE IF \E i \in DOMAIN commandArgs : commandArgs[i].name = name
         THEN "as Command() is already defined"
    ELSE ""

Command(name, impl) ==
    /\ Running
    /\ Budget
    /\ op' = "Command"
    /\ IF CommandPanic(name) # ""
       THEN /\ ret' = Panicked(CommandPanic(name))
            /\ UNCHANGED commandArgs
       ELSE /\ commandArgs' = Append(commandArgs, [name |-> name, impl |-> impl])
            /\ ret' = Returned
    /\ UNCHANGED <<flags, parsed, args, Error, command, commandName, commandOptions,
                   denyEmpty, pos, posN, mutuallyExclusives, required, allowedOptions,
                   allowedRegexps, mem, lists, cmdVar>>
    /\ UNCHANGED commands

(***************************************************************************)
(* MutuallyExclusive and Required.                                         *)
(***************************************************************************)
\* sliceDuplicates: the items that occur more than once.
sliceDuplicates(items) ==
    LET count(s) == Cardinality({i \in DOMAIN items : items[i] = s})
    IN  {s \in Range(items) : count(s) > 1}

\* The first name of the list that is no defined flag (0 when all are defined).
FirstUndefined(names) ==
    IF \A i \in DOMAIN names : Lookup(names[i]) THEN 0
    ELSE CHOOSE i \in DOMAIN names :
            /\ ~Lookup(names[i])
            /\ \A j \in 1..(i - 1) : Lookup(names[j])

\* MutuallyExclusive without the duplicate test.
MutuallyExclusivePanicDupes(names) ==
    IF Len(names) < 2 THEN "with less than two names"
    ELSE IF FirstUndefined(names) # 0 THEN "for undefined flag"
    ELSE IF parsed THEN "post-parse"
    ELSE ""

MutuallyExclusivePanic(names) ==
    IF Len(names) < 2 THEN "with less than two names"
    ELSE IF Cardinality(sliceDuplicates(names)) > 0 THEN "with duplicate values"
    ELSE IF FirstUndefined(names) # 0 THEN "for undefined flag"
    ELSE IF parsed THEN "post-parse"
    ELSE ""

MutuallyExclusive(names) ==
    /\ Running
    /\ Budget
    /\ op' = "MutuallyExclusive"
    /\ IF MutuallyExclusivePanic(names) # ""
       THEN /\ ret' = Panicked(MutuallyExclusivePanic(names))
            /\ UNCHANGED mutuallyExclusives
       ELSE /\ mutuallyExclusives' = Append(mutuallyExclusives, names)
            /\ ret' = Returned
    /\ UNCHANGED <<flags, parsed, args, Error, command, commandName, commandOptions,
                   commandArgs, denyEmpty, pos, posN, required, allowedOptions,
                   allowedRegexps, mem, lists, cmdVar>>
    /\ UNCHANGED commands

RequiredPanic(name) ==
    IF name = "" THEN "with empty name"
    ELSE IF ~Lookup(name) THEN "for undefined flag"
    ELSE IF parsed THEN "post-parse"
    ELSE ""

Required(name) ==
    /\ Running
    /\ Budget
    /\ op' = "Required"
    /\ IF RequiredPanic(name) # ""
       THEN /\ ret' = Panicked(RequiredPanic(name))
            /\ UNCHANGED required
       ELSE /\ required' = Append(required, name)
            /\ ret' = Returned
    /\ UNCHANGED <<flags, parsed, args, Error, command, commandName, commandOptions,
                   commandArgs, denyEmpty, pos, posN, mutuallyExclusives,
                   allowedOptions, allowedRegexps, mem, lists, cmdVar>>
    /\ UNCHANGED commands

(***************************************************************************)
(* The three string constraints.  They share the name checks: a fixed      *)
(* positional of that name, else a defined flag of type string.            *)
(***************************************************************************)
\* The name checks without the test of the flag's type.
StringNamePanicAnyType(name) ==
    IF name = "" THEN "with empty name"
    ELSE IF ~PosNamed(name) /\ ~Lookup(name) THEN "for undefined flag"
    ELSE ""

StringNamePanic(name) ==
    IF name = "" THEN "with empty name"
    ELSE IF ~PosNamed(name) /\ ~Lookup(name) THEN "for undefined flag"
    ELSE IF ~PosNamed(name) /\ FlagType(name) # "string"
         THEN "for a flag that is not a string value"
    ELSE ""

StringAllowOptionsPanic(name) ==
    IF StringNamePanic(name) # "" THEN StringNamePanic(name)
    ELSE IF parsed THEN "post-parse"
    ELSE ""

StringAllowOptions(target, name, options) ==
    /\ Running
    /\ Budget
    /\ op' = "StringAllowOptions"
    /\ IF StringAllowOptionsPanic(name) # ""
       THEN /\ ret' = Panicked(StringAllowOptionsPanic(name))
            /\ UNCHANGED allowedOptions
       ELSE /\ allowedOptions' = Append(allowedOptions,
                    [name |-> name, target |-> target, options |-> options])
            /\ ret' = Returned
    /\ UNCHANGED <<flags, parsed, args, Error, command, commandName, commandOptions,
                   commandArgs, denyEmpty, pos, posN, mutuallyExclusives, required,
                   allowedRegexps, mem, lists, cmdVar>>
    /\ UNCHANGED commands

\* regexp.Compile succeeds: of the patterns used here, "(" alone is malformed.
Compiles(re) == re # "("

StringAllowRegexpPanic(name, re) ==
    IF StringNamePanic(name) # "" THEN StringNamePanic(name)
    ELSE IF ~Compiles(re) THEN "due to: error parsing regexp"
    ELSE IF parsed THEN "post-parse"
    ELSE ""

StringAllowRegexp(target, name, re) ==
    /\ Running
    /\ Budget
    /\ op' = "StringAllowRegexp"
    /\ IF StringAllowRegexpPanic(name, re) # ""
       THEN /\ ret' = Panicked(StringAllowRegexpPanic(name, re))
            /\ UNCHANGED allowedRegexps
       ELSE /\ allowedRegexps' = Append(allowedRegexps,
                    [name |-> name, target |-> target, regexp |-> re])
            /\ ret' = Returned
    /\ UNCHANGED <<flags, parsed, args, Error, command, commandName, commandOptions,
                   commandArgs, denyEmpty, pos, posN, mutuallyExclusives, required,
                   allowedOptions, mem, lists, cmdVar>>
    /\ UNCHANGED commands

\* StringDenyEmpty without its Parsed() check.
StringDenyEmptyPanicNoParsed(name) == StringNamePanic(name)

\* StringDenyEmpty without its search for the name.
StringDenyEmptyPanicAnyName(name) ==
    IF name = "" THEN "with empty name"
    ELSE IF parsed THEN "post-parse"
    ELSE ""

StringDenyEmptyPanic(name) ==
    IF StringNamePanic(name) # "" THEN StringNamePanic(name)
    ELSE IF parsed THEN "post-parse"
    ELSE ""

\* The target is accepted and never stored.
StringDenyEmpty(target, name) ==
    /\ Running
    /\ Budget
    /\ op' = "StringDenyEmpty"
    /\ IF StringDenyEmptyPanic(name) # ""
       THEN /\ ret' = Panicked(StringDenyEmptyPanic(name))
            /\ UNCHANGED denyEmpty
       ELSE /\ denyEmpty' = Append(denyEmpty, name)
            /\ ret' = Returned
    /\ UNCHANGED <<flags, parsed, args, Error, command, commandName, commandOptions,
                   commandArgs, pos, posN, mutuallyExclusives, required,
                   allowedOptions, allowedRegexps, mem, lists, cmdVar>>
    /\ UNCHANGED commands

(***************************************************************************)
(* StringPosNVar and StringPosVar.                                         *)
(***************************************************************************)
\* StringPosNVar without the maxN == 0 test.
StringPosNVarPanicMaxZero(name, minN, maxN) ==
    IF name = "" THEN "with empty name"
    ELSE IF command # NIL THEN "as CommandInit() has been defined"
    ELSE IF minN < 0 THEN "with minN < 0"
    ELSE IF maxN < -1 THEN "with maxN < -1"
    ELSE IF maxN # -1 /\ minN > maxN THEN "with minN > maxN"
    ELSE IF posN # <<>> THEN "as StringPosNVar() is already defined"
    ELSE IF PosNamed(name) THEN "as StringPosVar() is already defined"
    ELSE ""

StringPosNVarPanic(name, minN, maxN) ==
    IF name = "" THEN "with empty name"
    ELSE IF command # NIL THEN "as CommandInit() has been defined"
    ELSE IF minN < 0 THEN "with minN < 0"
    ELSE IF maxN = 0 THEN "with maxN(0)"
    ELSE IF maxN < -1 THEN "with maxN < -1"
    ELSE IF maxN # -1 /\ minN > maxN THEN "with minN > maxN"
    ELSE IF posN # <<>> THEN "as StringPosNVar() is already defined"
    ELSE IF PosNamed(name) THEN "as StringPosVar() is already defined"
    ELSE ""

StringPosNVar(target, name, minN, maxN) ==
    /\ Running
    /\ Budget
    /\ op' = "StringPosNVar"
    /\ IF StringPosNVarPanic(name, minN, maxN) # ""
       THEN /\ ret' = Panicked(StringPosNVarPanic(name, minN, maxN))
            /\ UNCHANGED posN
       ELSE /\ posN' = <<[target |-> target, name |-> name,
                          minN |-> minN, maxN |-> maxN]>>
            /\ ret' = Returned
    /\ UNCHANGED <<flags, parsed, args, Error, command, commandName, commandOptions,
                   commandArgs, denyEmpty, pos, mutuallyExclusives, required,
                   allowedOptions, allowedRegexps, mem, lists, cmdVar>>
    /\ UNCHANGED commands

\* StringPosVar without the comparison of the targets.
StringPosVarPanicSharedTarget(target, name) ==
    IF name = "" THEN "with empty name"
    ELSE IF command # NIL THEN "as Command() has already been defined"
    ELSE IF Lookup(name) THEN "as already defined as flag"
    ELSE IF PosNamed(name) THEN "as StringPosVar() is already defined"
    ELSE IF posN # <<>> THEN "as StringPosNVar() is already defined"
    ELSE ""

StringPosVarPanic(target, name) ==
    IF name = "" THEN "with empty name"
    ELSE IF command # NIL THEN "as Command() has already been defined"
    ELSE IF Lookup(name) THEN "as already defined as flag"
    ELSE IF \E i \in DOMAIN pos :
              /\ pos[i].name = name
              /\ \A j \in 1..(i - 1) : pos[j].name # name /\ pos[j].target # target
         THEN "as StringPosVar() is already defined"
    ELSE IF \E i \in DOMAIN pos : pos[i].target = target
         THEN "using the same target as StringPosVar()"
    ELSE IF posN # <<>> THEN "as StringPosNVar() is already defined"
    ELSE ""

StringPosVar(target, name) ==
    /\ Running
    /\ Budget
    /\ op' = "StringPosVar"
    /\ IF StringPosVarPanic(target, name) # ""
       THEN /\ ret' = Panicked(StringPosVarPanic(target, name))
            /\ UNCHANGED pos
       ELSE /\ pos' = Append(pos, [target |-> target, name |-> name])
            /\ ret' = Returned
    /\ UNCHANGED <<flags, parsed, args, Error, command, commandName, commandOptions,
                   commandArgs, denyEmpty, posN, mutuallyExclusives, required,
                   allowedOptions, allowedRegexps, mem, lists, cmdVar>>
    /\ UNCHANGED commands

(***************************************************************************)
(* FlagSet.Parse: the tokenizer.  A token is a flag assignment or a plain  *)
(* argument; plain arguments are collected, in order, as the leftover      *)
(* arguments; the first unknown flag ends the parse with an error.         *)
(***************************************************************************)
RECURSIVE pflagParse(_, _, _, _)
pflagParse(toks, fl, m, left) ==
    IF toks = <<>>
    THEN [flags |-> fl, mem |-> m, args |-> left, err |-> NoErr]
    ELSE LET t == Head(toks)
         IN  IF t.kind = "arg"
             THEN pflagParse(Tail(toks), fl, m, Append(left, t.val))
             ELSE IF t.name \notin DOMAIN fl
             THEN [flags |-> fl, mem |-> m, args |-> left,
                   err |-> "unknown flag: --" \o t.name]
             ELSE pflagParse(Tail(toks),
                             [fl EXCEPT ![t.name].changed = TRUE],
                             [m EXCEPT ![fl[t.name].cell] = t.val],
                             left)

Parse(arguments) == pflagParse(arguments, flags, mem, <<>>)

(***************************************************************************)
(* The validators.  A store s = [mem, lists, cmd] holds the caller's       *)
(* variables as the validators write them; fl is the flag table and nargs  *)
(* the leftover arguments after the tokenizer.                             *)
(***************************************************************************)
Quote(str) == "\"" \o str \o "\""

RECURSIVE Join(_, _)
Join(strs, sep) ==
    IF strs = <<>> THEN ""
    ELSE IF Len(strs) = 1 THEN strs[1]
    ELSE strs[1] \o sep \o Join(Tail(strs), sep)

\* fmt's %q of a []string
QuoteList(strs) == "[" \o Join([i \in DOMAIN strs |-> Quote(strs[i])], " ") \o "]"

Pass(s) == [err |-> NoErr, s |-> s]
Fail(e, s) == [err |-> e, s |-> s]

\* The loop over p.commandArgs: every entry of that name binds, the last one stays.
RECURSIVE bindCommand(_, _, _)
bindCommand(i, commandName_, s) ==
    IF i > Len(commandArgs) THEN [found |-> FALSE, s |-> s]
    ELSE LET hit == commandArgs[i].name = commandName_
             s1 == IF hit
                   THEN [s EXCEPT !.cmd = commandArgs[i].impl,
                                  !.mem[commandName] = commandName_]
                   ELSE s
             rest == bindCommand(i + 1, commandName_, s1)
         IN  [found |-> hit \/ rest.found, s |-> rest.s]

\* parseCommand calling Command() of the implementation of the command it resolves.
parseCommandInvokes(nargs, s) ==
    IF Len(nargs) > 0 /\ command = NIL /\ Len(pos) = 0 /\ posN = <<>>
    THEN Fail("no positional arguments expected", s)
    ELSE IF command = NIL THEN Pass(s)
    ELSE IF Len(nargs) = 0 THEN Fail("missing command", s)
    ELSE LET b == bindCommand(1, nargs[1], s)
             rest == Tail(nargs)
             i == b.s.base[b.s.cmd].impl
             ran == IF i = NIL THEN b.s
                    ELSE [b.s EXCEPT !.calls[i].Command = @ + 1]
         IN  IF ~b.found THEN Fail("invalid command: " \o nargs[1], s)
             ELSE IF Len(rest) = 0 THEN Pass(ran)
             ELSE IF commandOptions = NIL
             THEN Fail("options not allowed for command: " \o nargs[1], b.s)
             ELSE Pass([ran EXCEPT !.lists[commandOptions] = rest])

\* parseCommand handing all leftover arguments, the command name too, to the options.
parseCommandKeepsName(nargs, s) ==
    IF Len(nargs) > 0 /\ command = NIL /\ Len(pos) = 0 /\ posN = <<>>
    THEN Fail("no positional arguments expected", s)
    ELSE IF command = NIL THEN Pass(s)
    ELSE IF Len(nargs) = 0 THEN Fail("missing command", s)
    ELSE LET b == bindCommand(1, nargs[1], s)
             rest == Tail(nargs)
         IN  IF ~b.found THEN Fail("invalid command: " \o nargs[1], s)
             ELSE IF Len(rest) = 0 THEN Pass(b.s)
             ELSE IF commandOptions = NIL
             THEN Fail("options not allowed for command: " \o nargs[1], b.s)
             ELSE Pass([b.s EXCEPT !.lists[commandOptions] = nargs])

\* parseCommand looking at the trailing tokens before it binds the command.
parseCommandChecksFirst(nargs, s) ==
    IF Len(nargs) > 0 /\ command = NIL /\ Len(pos) = 0 /\ posN = <<>>
    THEN Fail("no positional arguments expected", s)
    ELSE IF command = NIL THEN Pass(s)
    ELSE IF Len(nargs) = 0 THEN Fail("missing command", s)
    ELSE LET b == bindCommand(1, nargs[1], s)
             rest == Tail(nargs)
         IN  IF ~b.found THEN Fail("invalid command: " \o nargs[1], s)
             ELSE IF Len(rest) = 0 THEN Pass(b.s)
             ELSE IF commandOptions = NIL
             THEN Fail("options not allowed for command: " \o nargs[1], s)
             ELSE Pass([b.s EXCEPT !.lists[commandOptions] = rest])

parseCommand(nargs, s) ==
    IF Len(nargs) > 0 /\ command = NIL /\ Len(pos) = 0 /\ posN = <<>>
    THEN Fail("no positional arguments expected", s)
    ELSE IF command = NIL THEN Pass(s)
    ELSE IF Len(nargs) = 0 THEN Fail("missing command", s)
    ELSE LET b == bindCommand(1, nargs[1], s)
             rest == Tail(nargs)
         IN  IF ~b.found THEN Fail("invalid command: " \o nargs[1], s)
             ELSE IF Len(rest) = 0 THEN Pass(b.s)
             ELSE IF commandOptions = NIL
             THEN Fail("options not allowed for command: " \o nargs[1], b.s)
             ELSE Pass([b.s EXCEPT !.lists[commandOptions] = rest])

\* The assignment loop storing the first leftover argument in every target.
RECURSIVE assignPosFirstToken(_, _, _)
assignPosFirstToken(i, nargs, m) ==
    IF i > Len(pos) THEN m
    ELSE assignPosFirstToken(i + 1, nargs, [m EXCEPT ![pos[i].target] = nargs[1]])

\* for i, v := range nargs[0:len(p.pos)] { *p.pos[i].target = v }
RECURSIVE assignPos(_, _, _)
assignPos(i, nargs, m) ==
    IF i > Len(pos) THEN m
    ELSE assignPos(i + 1, nargs, [m EXCEPT ![pos[i].target] = nargs[i]])

\* The variadic positional's check without the upper bound.
parseNargsNNoMax(nargs, s) ==
    LET n == posN[1]
        k == Len(nargs)
    IN  IF k < n.minN
        THEN IF k = 0
             THEN IF n.maxN = -1
                  THEN Fail("no " \o Quote(n.name)
                            \o " positional argument(s) provided, see --help", s)
                  ELSE Fail("no " \o Quote(n.name)
                            \o " positional argument(s) provided, expected "
                            \o ToString(n.minN) \o ", see --help", s)
             ELSE Fail("got " \o ToString(k) \o " " \o Quote(n.name)
                       \o " positional argument(s), expected " \o ToString(n.minN)
                       \o " at least, see --help", s)
        ELSE Pass([s EXCEPT !.lists[n.target] = nargs])

parseNargsN(nargs, s) ==
    LET n == posN[1]
        k == Len(nargs)
    IN  IF k < n.minN
        THEN IF k = 0
             THEN IF n.maxN = -1
                  THEN Fail("no " \o Quote(n.name)
                            \o " positional argument(s) provided, see --help", s)
                  ELSE Fail("no " \o Quote(n.name)
                            \o " positional argument(s) provided, expected "
                            \o ToString(n.minN) \o ", see --help", s)
             ELSE Fail("got " \o ToString(k) \o " " \o Quote(n.name)
                       \o " positional argument(s), expected " \o ToString(n.minN)
                       \o " at least, see --help", s)
        ELSE IF n.maxN # -1 /\ k > n.maxN
        THEN Fail("got " \o ToString(k) \o " " \o Quote(n.name)
                  \o " positional argument(s), expected " \o ToString(n.maxN)
                  \o " at most, see --help", s)
        ELSE Pass([s EXCEPT !.lists[n.target] = nargs])

parseNargs(nargs, s) ==
    IF command # NIL THEN Pass(s)
    ELSE IF Len(nargs) > 0 /\ Len(pos) = 0 /\ posN = <<>>
    THEN Fail("no positional arguments expected", s)
    ELSE IF Len(pos) > 0 /\ Len(nargs) < Len(pos)
    THEN Fail("insufficient number of positional arguments, see --help", s)
    ELSE LET s1 == [s EXCEPT !.mem = assignPos(1, nargs, s.mem)]
             rest == SubSeq(nargs, Len(pos) + 1, Len(nargs))
         IN  IF posN # <<>> THEN parseNargsN(rest, s1)
             ELSE IF Len(rest) > 0
             THEN Fail("unexpected number of positional arguments", s1)
             ELSE Pass(s1)

\* The loop of parseRequired: the required names whose flag is unchanged, in order.
RECURSIVE unchangedOf(_, _)
unchangedOf(names, fl) ==
    IF names = <<>> THEN <<>>
    ELSE (IF ~fl[names[1]].changed THEN <<names[1]>> ELSE <<>>)
         \o unchangedOf(Tail(names), fl)

\* parseRequired reporting the first missing flag only.
parseRequiredFirstMissing(fl) ==
    LET missing == unchangedOf(required, fl)
    IN  IF Len(missing) >= 1 THEN "missing required flag: " \o missing[1]
        ELSE NoErr

parseRequired(fl) ==
    LET missing == unchangedOf(required, fl)
    IN  IF Len(missing) = 1 THEN "missing required flag: " \o missing[1]
        ELSE IF Len(missing) > 1 THEN "missing required flags: " \o Join(missing, ", ")
        ELSE NoErr

\* The inner loop naming the conflicting pair in reverse order.
RECURSIVE scanGroupReversed(_, _, _, _)
scanGroupReversed(names, i, changed, fl) ==
    IF i > Len(names) THEN NoErr
    ELSE IF fl[names[i]].changed
    THEN IF changed # ""
         THEN names[i] \o " and " \o changed \o " are mutually exclusive flags"
         ELSE scanGroupReversed(names, i + 1, names[i], fl)
    ELSE scanGroupReversed(names, i + 1, changed, fl)

\* The inner loop of parseMutuallyExclusive over one group.
RECURSIVE scanGroup(_, _, _, _)
scanGroup(names, i, changed, fl) ==
    IF i > Len(names) THEN NoErr
    ELSE IF fl[names[i]].changed
    THEN IF changed # ""
         THEN changed \o " and " \o names[i] \o " are mutually exclusive flags"
         ELSE scanGroup(names, i + 1, names[i], fl)
    ELSE scanGroup(names, i + 1, changed, fl)

RECURSIVE scanGroups(_, _)
scanGroups(g, fl) ==
    IF g > Len(mutuallyExclusives) THEN NoErr
    ELSE LET e == scanGroup(mutuallyExclusives[g], 1, "", fl)
         IN  IF e # NoErr THEN e ELSE scanGroups(g + 1, fl)

parseMutuallyExclusive(fl) == scanGroups(1, fl)

\* The loop of parseDenyEmpty reading a flag's value only if the user supplied it.
RECURSIVE scanDenyEmptyChanged(_, _, _, _)
scanDenyEmptyChanged(i, empty, fl, m) ==
    IF i > Len(denyEmpty) THEN [err |-> NoErr, empty |-> empty]
    ELSE LET name == denyEmpty[i]
         IN  IF name \notin DOMAIN fl
             THEN IF ~PosNamed(name) THEN [err |-> "wtf", empty |-> empty]
                  ELSE LET j == CHOOSE j \in DOMAIN pos :
                                    /\ pos[j].name = name
                                    /\ \A h \in 1..(j - 1) : pos[h].name # name
                       IN  scanDenyEmptyChanged(i + 1,
                               IF m[pos[j].target] = "" THEN Append(empty, name)
                               ELSE empty, fl, m)
             ELSE scanDenyEmptyChanged(i + 1,
                      IF fl[name].changed /\ m[fl[name].cell] = ""
                      THEN Append(empty, name) ELSE empty,
                      fl, m)

\* The loop of parseDenyEmpty: the names found empty so far, or the internal error.
RECURSIVE scanDenyEmpty(_, _, _, _)
scanDenyEmpty(i, empty, fl, m) ==
    IF i > Len(denyEmpty) THEN [err |-> NoErr, empty |-> empty]
    ELSE LET name == denyEmpty[i]
         IN  IF name \notin DOMAIN fl
             THEN IF ~PosNamed(name) THEN [err |-> "wtf", empty |-> empty]
                  ELSE LET j == CHOOSE j \in DOMAIN pos :
                                    /\ pos[j].name = name
                                    /\ \A h \in 1..(j - 1) : pos[h].name # name
                       IN  scanDenyEmpty(i + 1,
                               IF m[pos[j].target] = "" THEN Append(empty, name)
                               ELSE empty, fl, m)
             ELSE scanDenyEmpty(i + 1,
                      IF m[fl[name].cell] = "" THEN Append(empty, name) ELSE empty,
                      fl, m)

parseDenyEmpty(fl, m) ==
    LET r == scanDenyEmpty(1, <<>>, fl, m)
    IN  IF r.err # NoErr THEN r.err
        ELSE IF Len(r.empty) = 1 THEN "flag/argument is empty: " \o r.empty[1]
        ELSE IF Len(r.empty) > 1
        THEN "flags/arguments are empty: " \o Join(r.empty, ", ")
        ELSE NoErr

\* regexp.MatchString for the compiled pattern "^x"
MatchString(re, v) == re = "^x" /\ Len(v) >= 1 /\ SubSeq(v, 1, 1) = "x"

\* allowedOption.check letting the empty string through.
allowedOptionCheckEmptyOk(a, m) ==
    IF m[a.target] # "" /\ m[a.target] \notin Range(a.options)
    THEN a.name \o ": invalid value: " \o Quote(m[a.target])
         \o " is not among options: " \o QuoteList(a.options)
    ELSE NoErr

allowedOptionCheck(a, m) ==
    IF m[a.target] \notin Range(a.options)
    THEN a.name \o ": invalid value: " \o Quote(m[a.target])
         \o " is not among options: " \o QuoteList(a.options)
    ELSE NoErr

allowedRegexpCheck(a, m) ==
    IF ~MatchString(a.regexp, m[a.target])
    THEN a.name \o ": invalid value: " \o Quote(m[a.target])
         \o " is not matching regexp " \o Quote(a.regexp)
    ELSE NoErr

\* The two loops of parseAllowed: the first failing check of a list, in order.
RECURSIVE checkRegexps(_, _)
checkRegexps(rules, m) ==
    IF rules = <<>> THEN NoErr
    ELSE IF allowedRegexpCheck(rules[1], m) # NoErr THEN allowedRegexpCheck(rules[1], m)
    ELSE checkRegexps(Tail(rules), m)

RECURSIVE checkOptions(_, _)
checkOptions(rules, m) ==
    IF rules = <<>> THEN NoErr
    ELSE IF allowedOptionCheck(rules[1], m) # NoErr THEN allowedOptionCheck(rules[1], m)
    ELSE checkOptions(Tail(rules), m)

\* parseAllowed with its two loops in the other order.
parseAllowedOptionsFirst(m) ==
    IF checkOptions(allowedOptions, m) # NoErr
    THEN checkOptions(allowedOptions, m)
    ELSE checkRegexps(allowedRegexps, m)

parseAllowed(m) ==
    IF checkRegexps(allowedRegexps, m) # NoErr
    THEN checkRegexps(allowedRegexps, m)
    ELSE checkOptions(allowedOptions, m)

requiredArgs ==
    \/ command # NIL
    \/ Len(pos) > 0
    \/ (posN # <<>> /\ posN[1].minN > 0)
    \/ Len(required) > 0

(***************************************************************************)
(* ParseArgs.  generateHelp writes the usage to standard output for exit    *)
(* code 0, to the error stream otherwise, and ends the process.            *)
(***************************************************************************)
RECURSIVE Repeat(_, _)
Repeat(str, k) == IF k <= 0 THEN "" ELSE str \o Repeat(str, k - 1)

\* The loop over p.pos: every fixed positional's name after a blank.
RECURSIVE posArgsOf(_)
posArgsOf(ps) ==
    IF ps = <<>> THEN "" ELSE " " \o ps[1].name \o posArgsOf(Tail(ps))

\* The variadic positional with one optional bracket per possible extra argument.
posNArgsFlat(n) ==
    (IF n.minN = 0 /\ n.maxN = -1 THEN " [" \o n.name \o "]" ELSE "")
    \o Repeat(" " \o n.name, n.minN)
    \o (IF n.maxN = -1 THEN ".."
        ELSE Repeat(" [" \o n.name \o "]", n.maxN - n.minN))

\* What generateHelp appends to posArgs for the variadic positional.
posNArgs(n) ==
    (IF n.minN = 0 /\ n.maxN = -1 THEN " [" \o n.name \o "]" ELSE "")
    \o Repeat(" " \o n.name, n.minN)
    \o (IF n.maxN = -1 THEN ".."
        ELSE Repeat(" [" \o n.name, n.maxN - n.minN) \o Repeat("]", n.maxN - n.minN))

\* The usage line after "usage: <Name>", without its line feeds.
usageLine ==
    IF \E i \in DOMAIN commandArgs : Len(commandArgs[i].name) > 0
    THEN IF commandOptions = NIL THEN " [option].. <command>"
         ELSE " [option].. <command> [command option].."
    ELSE " [option].." \o posArgsOf(pos)
         \o (IF posN # <<>> THEN posNArgs(posN[1]) ELSE "")

generateHelp(rc) ==
    [kind |-> "exit", msg |-> ToString(rc),
     out |-> IF rc = 0 THEN "stdout" ELSE "stderr",
     usage |-> usageLine]

\* The validators with the required-flag check called before the positional one.
runValidatorsRequiredFirst(nargs, fl, s) ==
    LET c == parseCommand(nargs, s)
    IN  IF c.err # NoErr THEN c
        ELSE IF parseRequired(fl) # NoErr THEN Fail(parseRequired(fl), c.s)
        ELSE LET n == parseNargs(nargs, c.s)
             IN  IF n.err # NoErr THEN n
                 ELSE IF parseMutuallyExclusive(fl) # NoErr
                 THEN Fail(parseMutuallyExclusive(fl), n.s)
                 ELSE IF parseDenyEmpty(fl, n.s.mem) # NoErr
                 THEN Fail(parseDenyEmpty(fl, n.s.mem), n.s)
                 ELSE IF parseAllowed(n.s.mem) # NoErr
                 THEN Fail(parseAllowed(n.s.mem), n.s)
                 ELSE Pass(n.s)

\* The six validators in the order ParseArgs calls them; the first error is returned.
runValidators(nargs, fl, s) ==
    LET c == parseCommand(nargs, s)
    IN  IF c.err # NoErr THEN c
        ELSE LET n == parseNargs(nargs, c.s)
             IN  IF n.err # NoErr THEN n
                 ELSE IF parseRequired(fl) # NoErr
                 THEN Fail(parseRequired(fl), n.s)
                 ELSE IF parseMutuallyExclusive(fl) # NoErr
                 THEN Fail(parseMutuallyExclusive(fl), n.s)
                 ELSE IF parseDenyEmpty(fl, n.s.mem) # NoErr
                 THEN Fail(parseDenyEmpty(fl, n.s.mem), n.s)
                 ELSE IF parseAllowed(n.s.mem) # NoErr
                 THEN Fail(parseAllowed(n.s.mem), n.s)
                 ELSE Pass(n.s)

\* The caller's variables and the command objects, as the validators find them.
store == [mem |-> mem, lists |-> lists, cmd |-> cmdVar, base |-> base, calls |-> calls]

\* ParseArgs looking at the help flag before the tokenizer's error.
parseOutcomeHelpFirst(arguments) ==
    LET t == Parse(arguments)
        s0 == [store EXCEPT !.mem = t.mem]
        help == t.mem[t.flags["help"].cell] = "true"
        v == runValidators(t.args, t.flags, s0)
    IN  IF help
        THEN [ret |-> generateHelp(0), Error |-> Error, t |-> t, s |-> s0]
        ELSE IF t.err # NoErr
        THEN [ret |-> Failed(t.err), Error |-> t.err, t |-> t, s |-> s0]
        ELSE IF Len(arguments) = 0 /\ requiredArgs
        THEN [ret |-> generateHelp(1), Error |-> Error, t |-> t, s |-> s0]
        ELSE [ret |-> Failed(v.err), Error |-> Error, t |-> t, s |-> v.s]

\* ParseArgs looking at the help conditions only after the validators passed.
parseOutcomeHelpLast(arguments) ==
    LET t == Parse(arguments)
        s0 == [store EXCEPT !.mem = t.mem]
        help == t.mem[t.flags["help"].cell] = "true"
        v == runValidators(t.args, t.flags, s0)
    IN  IF t.err # NoErr
        THEN [ret |-> Failed(t.err), Error |-> t.err, t |-> t, s |-> s0]
        ELSE IF v.err # NoErr
        THEN [ret |-> Failed(v.err), Error |-> Error, t |-> t, s |-> v.s]
        ELSE IF Len(arguments) = 0 /\ requiredArgs
        THEN [ret |-> generateHelp(1), Error |-> Error, t |-> t, s |-> s0]
        ELSE IF help
        THEN [ret |-> generateHelp(0), Error |-> Error, t |-> t, s |-> s0]
        ELSE [ret |-> Failed(v.err), Error |-> Error, t |-> t, s |-> v.s]

\* ParseArgs on the current parser: what it returns and what it leaves behind.
parseOutcome(arguments) ==
    LET t == Parse(arguments)
        s0 == [store EXCEPT !.mem = t.mem]
        help == t.mem[t.flags["help"].cell] = "true"
        v == runValidators(t.args, t.flags, s0)
    IN  IF t.err # NoErr
        THEN [ret |-> Failed(t.err), Error |-> t.err, t |-> t, s |-> s0]
        ELSE IF Len(arguments) = 0 /\ requiredArgs
        THEN [ret |-> generateHelp(1), Error |-> Error, t |-> t, s |-> s0]
        ELSE IF help
        THEN [ret |-> generateHelp(0), Error |-> Error, t |-> t, s |-> s0]
        ELSE [ret |-> Failed(v.err), Error |-> Error, t |-> t, s |-> v.s]

\* A parser is parsed once: Run builds a new parser for every run.
ParseArgs(arguments) ==
    /\ Running
    /\ run = <<>>
    /\ ~parsed
    /\ op' = "ParseArgs"
    /\ LET o == parseOutcome(arguments)
       IN  /\ parsed' = TRUE
           /\ flags' = o.t.flags
           /\ args' = o.t.args
           /\ Error' = o.Error
           /\ ret' = o.ret
           /\ mem' = o.s.mem
           /\ lists' = o.s.lists
           /\ cmdVar' = o.s.cmd
           /\ base' = o.s.base
           /\ calls' = o.s.calls
    /\ UNCHANGED <<table, run, parsers>>

(***************************************************************************)
(* BaseCommand (src/command.go).  Run is modelled in two steps, around the  *)
(* call of the implementation's Args(): the registration calls made while   *)
(* a Run is in progress are the body of Args(), made on the new parser.     *)
(***************************************************************************)
\* What Command() may return as its payload: an untyped nil, a value that is no
\* pointer, a nil pointer, a pointer without a String method, a pointer with one.
Payload(typed, pointer, null, stringer, ref) ==
    [typed |-> typed, pointer |-> pointer, null |-> null, stringer |-> stringer,
     ref |-> ref]

Payloads ==
    {Payload(FALSE, FALSE, TRUE, FALSE, NIL),
     Payload(TRUE, FALSE, FALSE, TRUE, "v1"),
     Payload(TRUE, TRUE, TRUE, TRUE, NIL),
     Payload(TRUE, TRUE, FALSE, FALSE, "i1"),
     Payload(TRUE, TRUE, FALSE, TRUE, "d1")}

ErrLists == {<<>>, <<"e1", "e2">>}

RunNames == {"run", "go"}
RunOptLists == {<<>>, <<Arg("y")>>, <<Flag("help", "true")>>, <<Flag("u", "x")>>}

\* The number of Run calls that construct a parser.
MaxRuns == 2

Bind(c, impl) ==
    /\ Running
    /\ run = <<>>
    /\ op' = "Bind"
    /\ ret' = Returned
    /\ base' = [base EXCEPT ![c].impl = impl]
    /\ UNCHANGED <<flags, parsed, args, Error, table, mem, lists, cmdVar, calls, run,
                   parsers>>

\* Run handing the parser of the earlier run to Args().
RunReusesParser(c, name, opts) ==
    /\ Running
    /\ run = <<>>
    /\ parsers <= MaxRuns
    /\ op' = "Run"
    /\ IF base[c].impl = NIL
       THEN /\ ret' = Failed("command implementation not set")
            /\ UNCHANGED <<flags, parsed, args, Error, table, mem, commands>>
       ELSE /\ ret' = Returned
            /\ base' = [base EXCEPT ![c].name = name, ![c].ArgP = parsers + 1]
            /\ parsers' = parsers + 1
            /\ calls' = [calls EXCEPT ![base[c].impl].Args = @ + 1]
            /\ run' = <<[cmd |-> c, opts |-> opts]>>
            /\ parsed' = FALSE
            /\ UNCHANGED <<flags, args, Error, table, mem>>
    /\ UNCHANGED <<lists, cmdVar>>

\* Run up to the return of c.impl.Args(): the name is set and ArgP is a new parser.
Run(c, name, opts) ==
    /\ Running
    /\ run = <<>>
    /\ parsers <= MaxRuns
    /\ op' = "Run"
    /\ IF base[c].impl = NIL
       THEN /\ ret' = Failed("command implementation not set")
            /\ UNCHANGED <<flags, parsed, args, Error, table, mem, commands>>
       ELSE /\ ret' = Returned
            /\ base' = [base EXCEPT ![c].name = name, ![c].ArgP = parsers + 1]
            /\ parsers' = parsers + 1
            /\ calls' = [calls EXCEPT ![base[c].impl].Args = @ + 1]
            /\ run' = <<[cmd |-> c, opts |-> opts]>>
            /\ flags' = [n \in {"help"} |->
                            [typ |-> "bool", cell |-> "vhelp", def |-> "false", changed |-> FALSE]]
            /\ mem' = [mem EXCEPT !["vhelp"] = "false"]
            /\ parsed' = FALSE
            /\ args' = <<>>
            /\ Error' = NoErr
            /\ command' = NIL
            /\ commandName' = NIL
            /\ commandOptions' = NIL
            /\ commandArgs' = <<>>
            /\ denyEmpty' = <<>>
            /\ pos' = <<>>
            /\ posN' = <<>>
            /\ mutuallyExclusives' = <<>>
            /\ required' = <<>>
            /\ allowedOptions' = <<>>
            /\ allowedRegexps' = <<>>
    /\ UNCHANGED <<lists, cmdVar>>

\* captureResult storing every non-nil pointer, with or without a String method.
captureResultAnyPointer(b, res, errs) ==
    LET b1 == [b EXCEPT !.errs = errs]
    IN  IF ~res.typed THEN [err |-> NoErr, b |-> b1]
        ELSE IF ~res.pointer
        THEN [err |-> "command result capture: expected pointer", b |-> b1]
        ELSE IF res.null THEN [err |-> NoErr, b |-> b1]
        ELSE [err |-> NoErr, b |-> [b1 EXCEPT !.data = res.ref]]

\* captureResult on the BaseCommand b: the error returned and b afterwards.
captureResult(b, res, errs) ==
    LET b1 == [b EXCEPT !.errs = errs]
    IN  IF ~res.typed THEN [err |-> NoErr, b |-> b1]
        ELSE IF ~res.pointer
        THEN [err |-> "command result capture: expected pointer", b |-> b1]
        ELSE IF res.null THEN [err |-> NoErr, b |-> b1]
        ELSE IF ~res.stringer
        THEN [err |-> "command result capture: expected CommandResultData", b |-> b1]
        ELSE [err |-> NoErr, b |-> [b1 EXCEPT !.data = res.ref]]

\* Run from the return of Args(): ParseArgs on the options, then Command() and
\* captureResult if the parse succeeded; res and errs are what Command() returns.
RunParse(res, errs) ==
    /\ Running
    /\ run # <<>>
    /\ ~parsed
    /\ op' = "Run"
    /\ LET c == run[1].cmd
           o == parseOutcome(run[1].opts)
           ok == o.ret = Returned
           r == captureResult(o.s.base[c], res, errs)
       IN  /\ parsed' = TRUE
           /\ flags' = o.t.flags
           /\ args' = o.t.args
           /\ Error' = o.Error
           /\ mem' = o.s.mem
           /\ lists' = o.s.lists
           /\ cmdVar' = o.s.cmd
           /\ IF ok
              THEN /\ calls' = [o.s.calls EXCEPT ![base[c].impl].Command = @ + 1]
                   /\ base' = [o.s.base EXCEPT ![c] = r.b]
                   /\ ret' = Failed(r.err)
              ELSE /\ calls' = o.s.calls
                   /\ base' = o.s.base
                   /\ ret' = o.ret
    /\ run' = <<>>
    /\ UNCHANGED <<table, parsers>>

(***************************************************************************)
(* The caller: any registration call, in any order, and one ParseArgs.     *)
(***************************************************************************)
Next ==
    \/ \E name \in FlagNames, value \in FlagDefaults : Frugal /\ DefineFlag(name, value)
    \/ \E o \in OptionsTargets : Frugal /\ CommandInit("cmd", "cname", o)
    \/ \E name \in CommandNames, impl \in Impls : Frugal /\ Command(name, impl)
    \/ \E names \in NameLists : Frugal /\ MutuallyExclusive(names)
    \/ \E name \in RuleNames : Frugal /\ Required(name)
    \/ \E t \in TargetCells, name \in RuleNames, o \in OptionLists :
          Frugal /\ StringAllowOptions(t, name, o)
    \/ \E t \in TargetCells, name \in RuleNames, re \in Regexps :
          Frugal /\ StringAllowRegexp(t, name, re)
    \/ \E t \in TargetCells, name \in RuleNames : Frugal /\ StringDenyEmpty(t, name)
    \/ \E t \in PosNCells, name \in PosNNames, minN \in MinNs, maxN \in MaxNs :
          Frugal /\ StringPosNVar(t, name, minN, maxN)
    \/ \E t \in PosCells, name \in PosNames : Frugal /\ StringPosVar(t, name)
    \/ \E arguments \in ArgLists : ParseArgs(arguments)

Spec == Init /\ [][Next]_vars

(***************************************************************************)
(* A caller that registers positionals or commands, with any inputs.       *)
(***************************************************************************)
NextPositional ==
    \/ \E name \in FlagNames, value \in FlagDefaults : Frugal /\ DefineFlag(name, value)
    \/ \E o \in OptionsTargets : Frugal /\ CommandInit("cmd", "cname", o)
    \/ \E name \in CommandNames, impl \in Impls : Frugal /\ Command(name, impl)
    \/ \E t \in PosNCells, name \in PosNNames, minN \in MinNs, maxN \in MaxNs :
          Frugal /\ StringPosNVar(t, name, minN, maxN)
    \/ \E t \in PosCells, name \in PosNames : Frugal /\ StringPosVar(t, name)
    \/ \E arguments \in CommandArgLists : ParseArgs(arguments)

SpecPositional == Init /\ [][NextPositional]_vars

(***************************************************************************)
(* A caller that registers rules on flags and fixed positionals, with any  *)
(* inputs.                                                                 *)
(***************************************************************************)
NextRules ==
    \/ \E name \in FlagNames, value \in FlagDefaults : Frugal /\ DefineFlag(name, value)
    \/ \E names \in NameLists : Frugal /\ MutuallyExclusive(names)
    \/ \E name \in RuleNames : Frugal /\ Required(name)
    \/ \E t \in TargetCells, name \in RuleNames, o \in OptionLists :
          Frugal /\ StringAllowOptions(t, name, o)
    \/ \E t \in TargetCells, name \in RuleNames, re \in Regexps :
          Frugal /\ StringAllowRegexp(t, name, re)
    \/ \E t \in TargetCells, name \in RuleNames : Frugal /\ StringDenyEmpty(t, name)
    \/ \E t \in PosCells, name \in PosNames : Frugal /\ StringPosVar(t, name)
    \/ \E arguments \in FewArgLists : ParseArgs(arguments)

SpecRules == Init /\ [][NextRules]_vars

(***************************************************************************)
(* A caller that uses every operation with inputs meant to succeed, and    *)
(* then parses any argument list.                                          *)
(***************************************************************************)
NextPipeline ==
    \/ \E name \in FlagNames, value \in FlagDefaults : Frugal /\ DefineFlag(name, value)
    \/ \E o \in OptionsTargets : Frugal /\ CommandInit("cmd", "cname", o)
    \/ \E name \in GoodCommandNames : Frugal /\ Command(name, "c1")
    \/ \E names \in GoodNameLists : Frugal /\ MutuallyExclusive(names)
    \/ \E name \in GoodRuleNames : Frugal /\ Required(name)
    \/ \E t \in TargetCells, name \in GoodRuleNames, o \in OptionLists :
          Frugal /\ StringAllowOptions(t, name, o)
    \/ \E t \in TargetCells, name \in GoodRuleNames, re \in GoodRegexps :
          Frugal /\ StringAllowRegexp(t, name, re)
    \/ \E name \in GoodRuleNames : Frugal /\ StringDenyEmpty(FlagCell(name), name)
    \/ \E t \in PosNCells, name \in GoodPosNNames, b \in GoodBounds :
          Frugal /\ StringPosNVar(t, name, b[1], b[2])
    \/ \E t \in PosCells, name \in GoodPosNames : Frugal /\ StringPosVar(t, name)
    \/ \E arguments \in ArgLists : ParseArgs(arguments)

SpecPipeline == Init /\ [][NextPipeline]_vars

(***************************************************************************)
(* A caller that defines its flags, puts rules on them and on one fixed     *)
(* positional, and then parses flag assignments and plain arguments.        *)
(***************************************************************************)
FlagRuleNames == {"a", "b", "help"}
FlagGroups == {<<"a", "b">>, <<"b", "a">>, <<"a", "b", "help">>, <<"help", "a">>}
ValueNames == {"a", "b", "p"}

FlagArgLists ==
    {<<>>,
     <<Flag("a", "x")>>, <<Flag("a", "")>>, <<Flag("a", "d")>>, <<Flag("b", "z")>>,
     <<Flag("help", "false")>>, <<Flag("help", "true")>>,
     <<Flag("a", "x"), Flag("b", "z")>>, <<Flag("b", ""), Flag("a", "")>>,
     <<Flag("a", "z"), Flag("b", "x"), Flag("help", "false")>>,
     <<Arg("x")>>, <<Arg("")>>, <<Arg("z")>>, <<Flag("a", ""), Arg("")>>,
     <<Flag("b", "z"), Arg("x")>>}

NextFlags ==
    \/ \E name \in FlagNames, value \in FlagDefaults : ~parsed /\ DefineFlag(name, value)
    \/ \E name \in FlagRuleNames : ~parsed /\ Required(name)
    \/ \E names \in FlagGroups : ~parsed /\ MutuallyExclusive(names)
    \/ \E name \in ValueNames : ~parsed /\ StringDenyEmpty(FlagCell(name), name)
    \/ \E name \in ValueNames, o \in OptionLists :
          ~parsed /\ StringAllowOptions(FlagCell(name), name, o)
    \/ \E name \in ValueNames, re \in GoodRegexps :
          ~parsed /\ StringAllowRegexp(FlagCell(name), name, re)
    \/ ~parsed /\ StringPosVar("vp", "p")
    \/ \E arguments \in FlagArgLists : ParseArgs(arguments)

SpecFlags == Init /\ [][NextFlags]_vars

(***************************************************************************)
(* A caller that registers commands, parses, and runs command objects, as  *)
(* the README's command example does: a command object is bound once, to  *)
(* itself, the commands are registered on the first parser before it is    *)
(* parsed, and an implementation's Args() may define a flag, require it    *)
(* and register a fixed positional on the parser of its Run.               *)
(***************************************************************************)
RunArgLists == {<<>>, <<Arg("x")>>, <<Arg("run")>>, <<Arg("go"), Arg("y")>>}

OuterCall == run = <<>> /\ ~parsed /\ parsers = 1
InArgs == run # <<>>
FirstRun == parsers = 1

NextCommand ==
    \/ \E c \in Impls : base[c].impl = NIL /\ Bind(c, c)
    \/ \E o \in OptionsTargets : OuterCall /\ CommandInit("cmd", "cname", o)
    \/ \E name \in GoodCommandNames, impl \in Impls : OuterCall /\ Command(name, impl)
    \/ InArgs /\ DefineFlag("a", "")
    \/ InArgs /\ Required("a")
    \/ InArgs /\ StringPosVar("vp", "p")
    \/ \E arguments \in RunArgLists : ParseArgs(arguments)
    \/ \E c \in Impls, name \in RunNames, opts \in RunOptLists :
          FirstRun /\ Run(c, name, opts)
    \/ \E res \in Payloads, errs \in ErrLists : RunParse(res, errs)

SpecCommand == Init /\ [][NextCommand]_vars

(***************************************************************************)
(* A caller that binds one command object and runs command objects again   *)
(* and again, as command_test.go does; the other object stays unbound.     *)
(***************************************************************************)
NextRuns ==
    \/ base["c1"].impl = NIL /\ Bind("c1", "c1")
    \/ InArgs /\ DefineFlag("a", "")
    \/ InArgs /\ Required("a")
    \/ InArgs /\ StringPosVar("vp", "p")
    \/ \E c \in Impls, name \in RunNames, opts \in RunOptLists : Run(c, name, opts)
    \/ \E res \in Payloads, errs \in ErrLists : RunParse(res, errs)

SpecRuns == Init /\ [][NextRuns]_vars

(***************************************************************************)
(* A caller that registers positionals or commands and asks for the usage, *)
(* as the TestHelp_Requested tests do.                                     *)
(***************************************************************************)
HelpBounds == {<<0, -1>>, <<1, -1>>, <<3, -1>>, <<0, 1>>, <<0, 3>>, <<1, 3>>, <<2, 2>>}
HelpArgLists == {<<>>, <<Flag("help", "true")>>, <<Arg("x")>>,
                 <<Flag("help", "true"), Arg("x")>>}

NextHelp ==
    \/ \E o \in OptionsTargets : ~parsed /\ CommandInit("cmd", "cname", o)
    \/ \E name \in GoodCommandNames : ~parsed /\ Command(name, "c1")
    \/ \E name \in GoodPosNames : ~parsed /\ StringPosVar("v" \o name, name)
    \/ \E b \in HelpBounds : ~parsed /\ StringPosNVar("ln", "n", b[1], b[2])
    \/ \E arguments \in HelpArgLists : ParseArgs(arguments)

SpecHelp == Init /\ [][NextHelp]_vars

(***************************************************************************)
(* Properties.                                                             *)
(***************************************************************************)
\* ParseArgs has returned from its validators (the tokenizer accepted the
\* arguments and no help was displayed).
Validated == op = "ParseArgs" /\ ret.kind = "return" /\ Error = NoErr

\* What each validator, taken alone, answers in the current state.
StageErrors ==
    <<parseCommand(args, store).err, parseNargs(args, store).err,
      parseRequired(flags), parseMutuallyExclusive(flags),
      parseDenyEmpty(flags, mem), parseAllowed(mem)>>

FailingStages == {i \in DOMAIN StageErrors : StageErrors[i] # NoErr}

EarliestFailure ==
    IF FailingStages = {} THEN NoErr
    ELSE StageErrors[CHOOSE i \in FailingStages : \A j \in FailingStages : i <= j]

C2_CommandXorPositional == ~(command # NIL /\ (Len(pos) > 0 \/ posN # <<>>))

RegistrationOps ==
    {"CommandInit", "Command", "MutuallyExclusive", "Required", "StringAllowOptions",
     "StringAllowRegexp", "StringDenyEmpty", "StringPosNVar", "StringPosVar"}

\* C3: every registration operation called after ParseArgs panics, and the
\* registration table never changes once parsing has occurred.
C3_NoRegistrationAfterParse ==
    [][parsed /\ op' \in RegistrationOps => ret'.kind = "panic" /\ table' = table]_vars

Distinct(names) == \A i, j \in DOMAIN names : i # j => names[i] # names[j]

\* A name the three string constraints accept: a fixed positional or a string flag.
StringName(name) ==
    /\ name # ""
    /\ \/ PosNamed(name)
       \/ Lookup(name) /\ FlagType(name) = "string"

PostParse == Panicked("post-parse")

\* C4: Required, MutuallyExclusive, StringAllowOptions, StringAllowRegexp and
\* StringDenyEmpty, called with otherwise valid arguments after ParseArgs, panic
\* with the post-parse message and append nothing to the registration table.
C4_RulesPanicPostParse ==
    [][parsed /\ ~(ret' = PostParse /\ table' = table) =>
        /\ op' = "Required" =>
              \A name \in RuleNames :
                  ~(name # "" /\ Lookup(name) /\ Required(name))
        /\ op' = "MutuallyExclusive" =>
              \A names \in NameLists :
                  ~(/\ Len(names) >= 2
                    /\ Distinct(names)
                    /\ \A i \in DOMAIN names : Lookup(names[i])
                    /\ MutuallyExclusive(names))
        /\ op' = "StringAllowOptions" =>
              \A t \in TargetCells, name \in RuleNames, o \in OptionLists :
                  ~(StringName(name) /\ StringAllowOptions(t, name, o))
        /\ op' = "StringAllowRegexp" =>
              \A t \in TargetCells, name \in RuleNames, re \in Regexps :
                  ~(StringName(name) /\ re = "^x" /\ StringAllowRegexp(t, name, re))
        /\ op' = "StringDenyEmpty" =>
              \A t \in TargetCells, name \in RuleNames :
                  ~(StringName(name) /\ StringDenyEmpty(t, name))
      ]_vars

C4_Witness == parsed /\ op = "StringDenyEmpty" /\ ret = PostParse

RuleNamesStored ==
    /\ \A i \in DOMAIN required : Lookup(required[i])
    /\ \A g \in DOMAIN mutuallyExclusives :
          \A i \in DOMAIN mutuallyExclusives[g] : Lookup(mutuallyExclusives[g][i])
    /\ \A i \in DOMAIN allowedOptions : StringName(allowedOptions[i].name)
    /\ \A i \in DOMAIN allowedRegexps : StringName(allowedRegexps[i].name)
    /\ \A i \in DOMAIN denyEmpty : StringName(denyEmpty[i])

Rejected == ret'.kind = "panic" /\ table' = table

\* C5: every name in the required list and in the exclusivity groups is a defined
\* flag, every name in an option, pattern or non-empty constraint is a defined
\* string flag or a fixed positional; a rule with an empty name, an undefined name
\* or (string constraints) a non-string flag panics and leaves the table unchanged.
C5_RuleNamesDefined ==
    [][/\ RuleNamesStored'
       /\ ~Rejected =>
          /\ op' = "Required" =>
                \A name \in RuleNames :
                    ~((name = "" \/ ~Lookup(name)) /\ Required(name))
          /\ op' = "MutuallyExclusive" =>
                \A names \in NameLists :
                    ~(/\ \E i \in DOMAIN names : names[i] = "" \/ ~Lookup(names[i])
                      /\ MutuallyExclusive(names))
          /\ op' = "StringAllowOptions" =>
                \A t \in TargetCells, name \in RuleNames, o \in OptionLists :
                    ~(~StringName(name) /\ StringAllowOptions(t, name, o))
          /\ op' = "StringAllowRegexp" =>
                \A t \in TargetCells, name \in RuleNames, re \in Regexps :
                    ~(~StringName(name) /\ StringAllowRegexp(t, name, re))
          /\ op' = "StringDenyEmpty" =>
                \A t \in TargetCells, name \in RuleNames :
                    ~(~StringName(name) /\ StringDenyEmpty(t, name))
      ]_vars

\* A rule on a flag is stored and a string constraint on the bool flag was refused.
C5_Witness ==
    /\ Len(required) > 0
    /\ op \in {"StringAllowOptions", "StringAllowRegexp", "StringDenyEmpty"}
    /\ ret = Panicked("for a flag that is not a string value")

PosWellFormed ==
    /\ \A i, j \in DOMAIN pos :
          i # j => pos[i].name # pos[j].name /\ pos[i].target # pos[j].target
    /\ Len(posN) <= 1
    /\ posN # <<>> => ~PosNamed(posN[1].name)

\* C6: fixed positionals have pairwise distinct names and targets, none takes the
\* name of an already defined flag, at most one variadic positional exists and its
\* name differs from every fixed one, no fixed positional is registered after the
\* variadic one; each violating call panics and leaves the table unchanged.
C6_PositionalsWellFormed ==
    [][/\ PosWellFormed'
       /\ pos' # pos =>
             /\ posN = <<>>
             /\ Len(pos') = Len(pos) + 1
             /\ SubSeq(pos', 1, Len(pos)) = pos
             /\ ~Lookup(pos'[Len(pos')].name)
       /\ ~Rejected =>
          /\ op' = "StringPosVar" =>
                \A t \in PosCells, name \in PosNames :
                    ~(/\ \/ PosNamed(name)
                         \/ \E i \in DOMAIN pos : pos[i].target = t
                         \/ Lookup(name)
                         \/ posN # <<>>
                      /\ StringPosVar(t, name))
          /\ op' = "StringPosNVar" =>
                \A t \in PosNCells, name \in PosNNames, minN \in MinNs, maxN \in MaxNs :
                    ~(/\ posN # <<>> \/ PosNamed(name)
                      /\ StringPosNVar(t, name, minN, maxN))
      ]_vars

\* Two fixed positionals and the variadic one are registered.
C6_Witness == Len(pos) = 2 /\ posN # <<>>

BoundsOk(minN, maxN) == minN >= 0 /\ (maxN = -1 \/ (maxN >= 1 /\ maxN >= minN))

\* C7: StringPosNVar accepts (minN, maxN) only when minN >= 0 and either maxN = -1
\* or maxN >= 1 and maxN >= minN; it panics for minN < 0, maxN = 0, maxN < -1 and
\* for minN > maxN with bounded maxN, so a registered variadic satisfies the bounds.
C7_VariadicBounds ==
    [][/\ posN' # <<>> => BoundsOk(posN'[1].minN, posN'[1].maxN)
       /\ op' = "StringPosNVar" /\ ~(ret'.kind = "panic" /\ posN' = posN) =>
             \A t \in PosNCells, name \in PosNNames, minN \in MinNs, maxN \in MaxNs :
                 ~(/\ \/ minN < 0
                      \/ maxN = 0
                      \/ maxN < -1
                      \/ maxN # -1 /\ minN > maxN
                      \/ ~BoundsOk(minN, maxN)
                   /\ StringPosNVar(t, name, minN, maxN))
      ]_vars

\* A bounded variadic is registered.
C7_Witness == posN # <<>> /\ posN[1].maxN = 1 /\ posN[1].minN = 1

GroupsWellFormed ==
    \A g \in DOMAIN mutuallyExclusives :
        /\ Len(mutuallyExclusives[g]) >= 2
        /\ Distinct(mutuallyExclusives[g])
        /\ \A i \in DOMAIN mutuallyExclusives[g] : Lookup(mutuallyExclusives[g][i])

\* C8: MutuallyExclusive panics when given fewer than two names, a repeated name or
\* an undefined flag name, so every stored exclusivity group holds at least two
\* pairwise distinct defined flag names.
C8_ExclusivityGroups ==
    [][/\ GroupsWellFormed'
       /\ op' = "MutuallyExclusive"
             /\ ~(ret'.kind = "panic" /\ mutuallyExclusives' = mutuallyExclusives) =>
             \A names \in NameLists :
                 ~(/\ \/ Len(names) < 2
                      \/ ~Distinct(names)
                      \/ \E i \in DOMAIN names : ~Lookup(names[i])
                   /\ MutuallyExclusive(names))
      ]_vars

\* A group is stored.
C8_Witness == Len(mutuallyExclusives) > 0 /\ op = "MutuallyExclusive"

CommandNamed(name) == \E i \in DOMAIN commandArgs : commandArgs[i].name = name

CommandNamesWellFormed ==
    /\ \A i \in DOMAIN commandArgs : commandArgs[i].name # ""
    /\ \A i, j \in DOMAIN commandArgs : i # j => commandArgs[i].name # commandArgs[j].name

\* C9: Command panics when the name is empty, when CommandInit has not been called,
\* when a fixed or variadic positional is registered, or when the name is already
\* registered; CommandInit panics on a second call; hence the registered command
\* names are pairwise distinct and non-empty.
C9_CommandRegistration ==
    [][/\ CommandNamesWellFormed'
       /\ op' = "Command" /\ ~Rejected =>
             \A name \in CommandNames, impl \in Impls :
                 ~(/\ \/ name = ""
                      \/ command = NIL
                      \/ Len(pos) > 0
                      \/ posN # <<>>
                      \/ CommandNamed(name)
                   /\ Command(name, impl))
       /\ op' = "CommandInit" /\ ret'.kind = "return" => command' # NIL
       /\ command # NIL => command' # NIL
       /\ command # NIL /\ op' = "CommandInit" => Rejected
      ]_vars

\* A command name was refused because it is registered already.
C9_Witness ==
    /\ op = "Command"
    /\ ret = Panicked("as Command() is already defined")
    /\ Len(commandArgs) > 0

ImplOf(name) == commandArgs[CHOOSE i \in DOMAIN commandArgs : commandArgs[i].name = name].impl

\* C10: with a command table, command resolution on the leftover tokens gives:
\* none -> "missing command"; first token no registered name -> "invalid command:
\* <token>"; registered -> the command cell holds the implementation and the name
\* cell the token, then: no further tokens -> success; further tokens with an
\* options cell -> the cell holds exactly the remaining tokens; further tokens
\* without an options cell -> "options not allowed for command: <name>".
C10_CommandResolution ==
    Validated /\ command # NIL =>
        IF args = <<>> THEN ret.msg = "missing command"
        ELSE IF ~CommandNamed(args[1]) THEN ret.msg = "invalid command: " \o args[1]
        ELSE /\ cmdVar = ImplOf(args[1])
             /\ mem[commandName] = args[1]
             /\ IF Len(args) = 1 THEN ret.msg = NoErr
                ELSE IF commandOptions # NIL
                THEN lists[commandOptions] = Tail(args) /\ ret.msg = NoErr
                ELSE ret.msg = "options not allowed for command: " \o args[1]

\* A registered command was given trailing tokens and an options cell is bound.
C10_Witness ==
    /\ Validated
    /\ command # NIL
    /\ Len(args) >= 2
    /\ CommandNamed(args[1])
    /\ commandOptions # NIL
    /\ lists[commandOptions] = Tail(args)

\* The command object the parse resolved is bound to an implementation.
Resolved == cmdVar # NIL /\ base[cmdVar].impl # NIL

\* C11 (as stated): when a command table is registered and ParseArgs succeeds, the
\* resolved sub-command has been invoked as part of that parse call: its Args() and
\* its Command() have run.
C11_ParseInvokesCommand ==
    Validated /\ command # NIL /\ ret.msg = NoErr /\ Resolved =>
        /\ calls[base[cmdVar].impl].Args > 0
        /\ calls[base[cmdVar].impl].Command > 0

\* C11 (amended): ParseArgs only binds the resolved sub-command to the command cell
\* and its name to the name cell; it calls no method of any command and changes no
\* command object.  Args() and Command() run only in a Run call, which the caller
\* makes after the parse.
C11_ParseBindsOnly ==
    [][/\ op' = "ParseArgs" =>
             /\ base' = base
             /\ calls' = calls
             /\ command # NIL /\ ret' = Returned =>
                   /\ cmdVar' = ImplOf(args'[1])
                   /\ mem'[commandName] = args'[1]
       /\ calls' # calls => op' = "Run"
      ]_vars

\* A parse resolved a bound command, and neither its Args() nor its Command() has run.
C11_Witness ==
    /\ Validated
    /\ command # NIL
    /\ ret.msg = NoErr
    /\ Resolved
    /\ calls[base[cmdVar].impl] = [Args |-> 0, Command |-> 0]

\* C12: with n fixed positionals and no command table, ParseArgs stores the i-th
\* leftover token in the i-th positional's target, in declaration order; fewer than n
\* tokens give "insufficient number of positional arguments, see --help"; more than n
\* without a variadic positional give "unexpected number of positional arguments";
\* tokens without any positional give "no positional arguments expected".
C12_FixedPositionals ==
    Validated /\ command = NIL =>
        LET n == Len(pos)
            k == Len(args)
        IN  IF n = 0 /\ posN = <<>>
            THEN ret.msg = IF k > 0 THEN "no positional arguments expected" ELSE NoErr
            ELSE IF k < n
            THEN ret.msg = "insufficient number of positional arguments, see --help"
            ELSE /\ \A i \in 1..n : mem[pos[i].target] = args[i]
                 /\ posN = <<>> =>
                       ret.msg = IF k > n
                                 THEN "unexpected number of positional arguments"
                                 ELSE NoErr

\* Two fixed positionals received two different tokens.
C12_Witness ==
    /\ Validated
    /\ command = NIL
    /\ posN = <<>>
    /\ Len(pos) = 2
    /\ Len(args) = 2
    /\ args[1] # args[2]
    /\ ret.msg = NoErr
    /\ mem[pos[2].target] = args[2]

\* The leftover tokens that remain after the fixed positionals took theirs.
Remaining == SubSeq(args, Len(pos) + 1, Len(args))

\* C13: for a variadic positional with (min, max) and k tokens remaining after the
\* fixed positionals, ParseArgs fails for k = min-1, succeeds for k = min and for
\* k = max, fails for k = max+1 when max is bounded, and succeeds for any k from min
\* on when max = -1; on success the variadic target holds exactly those k tokens.
C13_VariadicArity ==
    Validated /\ command = NIL /\ posN # <<>> /\ Len(args) >= Len(pos) =>
        LET n == posN[1]
            k == Len(Remaining)
        IN  IF k >= n.minN /\ (n.maxN = -1 \/ k <= n.maxN)
            THEN ret.msg = NoErr /\ lists[n.target] = Remaining
            ELSE ret.msg # NoErr

\* A variadic positional with bounds (1, 1) got one token too many, after a fixed one.
C13_Witness ==
    /\ Validated
    /\ command = NIL
    /\ posN # <<>>
    /\ Len(pos) = 1
    /\ posN[1].minN = 1
    /\ posN[1].maxN = 1
    /\ Len(Remaining) = 2
    /\ ret.msg # NoErr

\* The error of the variadic positional named name with minimum min for k tokens, k
\* below min: zero tokens with unbounded max, zero tokens with bounded max, k > 0.
TooFewError(name, min, max, k) ==
    IF k = 0
    THEN IF max = -1
         THEN "no " \o Quote(name) \o " positional argument(s) provided, see --help"
         ELSE "no " \o Quote(name) \o " positional argument(s) provided, expected "
              \o ToString(min) \o ", see --help"
    ELSE "got " \o ToString(k) \o " " \o Quote(name)
         \o " positional argument(s), expected " \o ToString(min) \o " at least, see --help"

\* The tokenizer accepted the arguments, they did not ask for help, and they leave
\* fewer tokens for the variadic positional than its minimum.
TooFew ==
    /\ op = "ParseArgs"
    /\ Error = NoErr
    /\ mem["vhelp"] # "true"
    /\ command = NIL
    /\ posN # <<>>
    /\ Len(args) >= Len(pos)
    /\ Len(Remaining) < posN[1].minN

\* C14: too few tokens for the variadic positional is always reported as a returned
\* error, also when the argument list is completely empty (the process does not
\* terminate): zero tokens give 'no "<name>" positional argument(s) provided', with
\* 'expected <min>' added when max is bounded, and k > 0 tokens below min give
\* 'got k ... expected <min> at least'.
C14_TooFewIsReturned ==
    TooFew =>
        /\ ret.kind = "return"
        /\ ret.msg = TooFewError(posN[1].name, posN[1].minN, posN[1].maxN, Len(Remaining))

\* ParseArgs reached its i-th validator: the earlier ones passed.
Reached(i) == Validated /\ \A j \in 1..(i - 1) : StageErrors[j] = NoErr

\* Whether the string starts with the prefix.
HasPrefix(str, prefix) ==
    Len(str) >= Len(prefix) /\ SubSeq(str, 1, Len(prefix)) = prefix

\* The required names whose flag the user did not supply, in registration order.
Missing == SelectSeq(required, LAMBDA n : ~flags[n].changed)

\* C15: the required-flag check depends only on the changed bit: it passes if every
\* required flag was supplied, also with a value equal to the default; one unchanged
\* flag gives "missing required flag: <name>", several give "missing required flags: "
\* and their names joined with ", " in registration order.
C15_RequiredByChangedBit ==
    Reached(3) =>
        IF Missing = <<>> THEN ~HasPrefix(ret.msg, "missing required")
        ELSE IF Len(Missing) = 1 THEN ret.msg = "missing required flag: " \o Missing[1]
        ELSE ret.msg = "missing required flags: " \o Join(Missing, ", ")

\* A required string flag was supplied with its default value, and the parse succeeded.
C15_Witness ==
    /\ Reached(3)
    /\ ret.msg = NoErr
    /\ \E i \in DOMAIN required :
          /\ flags[required[i]].typ = "string"
          /\ flags[required[i]].changed
          /\ mem[flags[required[i]].cell] = flags[required[i]].def

\* Whether the string ends with the suffix.
HasSuffix(str, suffix) ==
    /\ Len(str) >= Len(suffix)
    /\ SubSeq(str, Len(str) - Len(suffix) + 1, Len(str)) = suffix

\* The members of the g-th exclusivity group the user supplied, in declaration order.
ChangedIn(g) == SelectSeq(mutuallyExclusives[g], LAMBDA n : flags[n].changed)

\* The groups with two or more supplied members.
Violated == {g \in DOMAIN mutuallyExclusives : Len(ChangedIn(g)) >= 2}

\* C16: a parse in which no exclusivity group has two or more changed members passes
\* the exclusivity check; otherwise it fails with "<first> and <second> are mutually
\* exclusive flags", naming the first two changed members, in declaration order, of
\* the earliest registered violated group.
C16_MutualExclusivity ==
    Reached(4) =>
        IF Violated = {} THEN ~HasSuffix(ret.msg, " are mutually exclusive flags")
        ELSE LET g == CHOOSE g \in Violated : \A h \in Violated : g <= h
             IN  ret.msg = ChangedIn(g)[1] \o " and " \o ChangedIn(g)[2]
                           \o " are mutually exclusive flags"

\* Two groups are violated and name different pairs; the parse fails on exclusivity.
C16_Witness ==
    /\ Reached(4)
    /\ \E g, h \in Violated :
          /\ g < h
          /\ ChangedIn(g)[1] # ChangedIn(h)[1]
          /\ HasSuffix(ret.msg, " are mutually exclusive flags")

\* The value parseDenyEmpty reads for a name: the flag's value, or the target of the
\* first fixed positional of that name.
FinalValue(name) ==
    IF name \in DOMAIN flags THEN mem[flags[name].cell]
    ELSE mem[pos[CHOOSE j \in DOMAIN pos :
                    /\ pos[j].name = name
                    /\ \A h \in 1..(j - 1) : pos[h].name # name].target]

\* The StringDenyEmpty names whose final value is empty, in registration order.
EmptyNames == SelectSeq(denyEmpty, LAMBDA n : FinalValue(n) = "")

NothingSupplied == args = <<>> /\ \A n \in DOMAIN flags : ~flags[n].changed

\* C18: a parser holding only a string flag with the default "" and a StringDenyEmpty
\* constraint on it returns no error from ParseArgs with an empty argument list.
C18_EmptyDefaultPasses ==
    (/\ op = "ParseArgs"
     /\ NothingSupplied
     /\ Defined = 1
     /\ Registered = 1
     /\ Len(denyEmpty) = 1
     /\ denyEmpty[1] \in DOMAIN flags
     /\ flags[denyEmpty[1]].def = "")
    => ret = Returned

\* The option constraints whose target holds none of the allowed values, and the
\* pattern constraints whose target does not match, after parsing.
FailedOptions ==
    {i \in DOMAIN allowedOptions :
        \A k \in DOMAIN allowedOptions[i].options :
            mem[allowedOptions[i].target] # allowedOptions[i].options[k]}

FailedRegexps ==
    {i \in DOMAIN allowedRegexps :
        ~MatchString(allowedRegexps[i].regexp, mem[allowedRegexps[i].target])}

OptionMessage(a) ==
    a.name \o ": invalid value: \"" \o mem[a.target] \o "\" is not among options: "
    \o QuoteList(a.options)

RegexpMessage(a) ==
    a.name \o ": invalid value: \"" \o mem[a.target] \o "\" is not matching regexp \""
    \o a.regexp \o "\""

\* C19: an option constraint passes exactly when its target's value after parsing is
\* one of the allowed values, a pattern constraint exactly when the value matches the
\* pattern: ParseArgs succeeds if all pass, and otherwise fails with the message of a
\* failed constraint, '<name>: invalid value: "<value>" is not among options: [..]'
\* or '<name>: invalid value: "<value>" is not matching regexp "<pattern>"'.
C19_AllowedValues ==
    Reached(6) =>
        IF FailedOptions = {} /\ FailedRegexps = {} THEN ret.msg = NoErr
        ELSE \/ \E i \in FailedOptions : ret.msg = OptionMessage(allowedOptions[i])
             \/ \E i \in FailedRegexps : ret.msg = RegexpMessage(allowedRegexps[i])

\* A pattern constraint passes on one target, an option constraint fails on another.
C19_Witness ==
    /\ Reached(6)
    /\ allowedRegexps # <<>>
    /\ FailedRegexps = {}
    /\ \E i \in FailedOptions :
          /\ mem[allowedOptions[i].target] # ""
          /\ ret.msg = OptionMessage(allowedOptions[i])

\* The parser has an obligation: a command table, a fixed positional, a variadic
\* positional with minN > 0, or a required flag.
Obliged ==
    \/ command # NIL
    \/ pos # <<>>
    \/ \E i \in DOMAIN posN : posN[i].minN > 0
    \/ required # <<>>

\* The help flag was set by the arguments.
HelpSet == flags["help"].changed /\ mem[flags["help"].cell] = "true"

C21_ErrorFieldHoldsReturned ==
    op = "ParseArgs" /\ ret.kind = "return" /\ ret.msg # NoErr => Error = ret.msg

\* The parser carries no rule, no positional, no command and no flag but help.
FreshParser ==
    /\ Registered = 0
    /\ Defined = 0
    /\ ~parsed
    /\ ~flags["help"].changed
    /\ Error = NoErr

\* C22: Run without a bound implementation returns an error and creates no parser;
\* otherwise it sets the name, installs a new parser without any rule of an earlier
\* run, calls Args() exactly once, parses the options, and calls Command() exactly
\* once if and only if the parse succeeded; a parse error is returned as it is.
C22_RunSequence ==
    [][op' = "Run" =>
        /\ \A c \in Impls, name \in RunNames, opts \in RunOptLists :
              Run(c, name, opts) =>
                 IF base[c].impl = NIL
                 THEN /\ ret' = Failed("command implementation not set")
                      /\ parsers' = parsers
                      /\ base' = base
                      /\ calls' = calls
                 ELSE /\ base'[c].name = name
                      /\ base'[c].ArgP = parsers'
                      /\ parsers' > parsers
                      /\ FreshParser'
                      /\ calls' = [calls EXCEPT ![base[c].impl].Args = @ + 1]
        /\ run # <<>> =>
              LET impl == base[run[1].cmd].impl
              IN  /\ calls'[impl].Args = calls[impl].Args
                  /\ \A i \in Impls \ {impl} : calls'[i] = calls[i]
                  /\ IF Error' # NoErr
                     THEN ret' = Failed(Error') /\ calls' = calls
                     ELSE IF ret'.kind = "exit" THEN calls' = calls
                     ELSE IF EarliestFailure' # NoErr
                     THEN ret' = Failed(EarliestFailure') /\ calls' = calls
                     ELSE calls'[impl].Command = calls[impl].Command + 1
    ]_vars

\* A command was run twice: one parse succeeded and reached Command(), the other
\* failed in a validator on a parser that no longer holds the first run's positional.
C22_Witness ==
    /\ op = "Run"
    /\ run = <<>>
    /\ calls["c1"].Args = 2
    /\ calls["c1"].Command = 1
    /\ ret.kind = "return"
    /\ Error = NoErr
    /\ EarliestFailure # NoErr
    /\ mem["vp"] # ""
    /\ pos = <<>>

\* This step of Run called Command().
CommandCalled == op' = "Run" /\ run # <<>> /\ calls' # calls

\* C23: captureResult classifies the payload of Command() by its shape: a non-pointer
\* value gives an error; a non-nil pointer without a String method gives an error; a
\* nil pointer gives no error and stores no data; a non-nil pointer implementing
\* CommandResultData gives no error and is stored as Data by reference; in the two
\* cases without error the errors passed in are the result's errors, in order.
C23_CaptureByShape ==
    [][CommandCalled =>
        \A res \in Payloads, errs \in ErrLists :
            res.typed /\ RunParse(res, errs) =>
                LET c == run[1].cmd
                IN  IF ~res.pointer
                    THEN /\ HasPrefix(ret'.msg, "command result capture: expected pointer")
                         /\ base'[c].data = base[c].data
                    ELSE IF res.null
                    THEN /\ ret' = Returned
                         /\ base'[c].data = base[c].data
                         /\ base'[c].errs = errs
                    ELSE IF ~res.stringer
                    THEN /\ HasPrefix(ret'.msg,
                                "command result capture: expected CommandResultData")
                         /\ base'[c].data = base[c].data
                    ELSE /\ ret' = Returned
                         /\ base'[c].data = res.ref
                         /\ base'[c].errs = errs
    ]_vars

\* A Run stored the payload of Command() and its two errors.
C23_Witness ==
    /\ op = "Run"
    /\ run = <<>>
    /\ ret = Returned
    /\ calls["c1"].Command = 1
    /\ base["c1"].data = "d1"
    /\ base["c1"].errs = <<"e1", "e2">>

\* The payloads that stand for "no result": the untyped nil and the nil pointer.
UntypedNil == Payload(FALSE, FALSE, TRUE, FALSE, NIL)
NilPointer == Payload(TRUE, TRUE, TRUE, TRUE, NIL)

\* C24: captureResult called with an untyped nil payload and no errors returns an
\* error.
C24_UntypedNilIsError ==
    [][CommandCalled /\ RunParse(UntypedNil, <<>>) => ret'.msg # NoErr]_vars

\* C25: the result is fresh per invocation: when the Command() of the most recent Run
\* returned no payload (nil or a nil pointer), Data is absent, whatever an earlier Run
\* stored.
C25_ResultFreshPerRun ==
    [][CommandCalled =>
        \A res \in {UntypedNil, NilPointer}, errs \in ErrLists :
            RunParse(res, errs) => base'[run[1].cmd].data = NIL
    ]_vars

\* The brackets of a bounded variadic positional: k optional arguments, each inside
\* the one before it.
RECURSIVE Nested(_, _)
Nested(name, k) ==
    IF k = 0 THEN "" ELSE " [" \o name \o Nested(name, k - 1) \o "]"

\* The names of the fixed positionals as the usage line shows them.
FixedPart == Join([i \in DOMAIN pos |-> " " \o pos[i].name], "")

\* C26: in the usage line the variadic positional (min, max) appears as " [name].."
\* for min = 0 and max = -1, as the name repeated min times and ".." for min > 0 and
\* max = -1, and for a bounded max as the name repeated min times followed by max - min
\* nested optional brackets "[name [name]]".
C26_VariadicUsage ==
    ret.kind = "exit" /\ posN # <<>> =>
        LET n == posN[1]
            shown == IF n.minN = 0 /\ n.maxN = -1 THEN " [" \o n.name \o "].."
                     ELSE IF n.maxN = -1 THEN Repeat(" " \o n.name, n.minN) \o ".."
                     ELSE Repeat(" " \o n.name, n.minN)
                          \o Nested(n.name, n.maxN - n.minN)
        IN  ret.usage = " [option].." \o FixedPart \o shown

\* The usage shows a required argument followed by two nested optional ones.
C26_Witness ==
    /\ ret.kind = "exit"
    /\ posN # <<>>
    /\ posN[1].minN = 1
    /\ posN[1].maxN = 3
    /\ pos # <<>>
    /\ ret.usage = " [option].. " \o pos[1].name \o " n [n [n]]"

\* The first element of a non-empty set of indices.
First(S) == CHOOSE i \in S : \A j \in S : i <= j

\* C27: in the last validation stage every option constraint is evaluated before any
\* pattern constraint: a parse that violates one of each returns the "is not among
\* options" error of the first violated option constraint.
C27_OptionsBeforePatterns ==
    Reached(6) /\ FailedOptions # {} /\ FailedRegexps # {} =>
        ret.msg = OptionMessage(allowedOptions[First(FailedOptions)])

\* C27, as the code has it: every pattern constraint is evaluated before any option
\* constraint, each group in registration order: the error is that of the first
\* violated pattern constraint if there is one, and otherwise that of the first
\* violated option constraint.
C27_PatternsBeforeOptions ==
    Reached(6) =>
        IF FailedRegexps # {}
        THEN ret.msg = RegexpMessage(allowedRegexps[First(FailedRegexps)])
        ELSE IF FailedOptions # {}
        THEN ret.msg = OptionMessage(allowedOptions[First(FailedOptions)])
        ELSE ret.msg = NoErr

\* A parse violates an option constraint and a pattern constraint, and the
\* pattern constraint's error is returned.
C27_Witness ==
    /\ Reached(6)
    /\ FailedOptions # {}
    /\ FailedRegexps # {}
    /\ HasPrefix(ret.msg, allowedRegexps[First(FailedRegexps)].name \o ": invalid value")
    /\ HasSuffix(ret.msg, " is not matching regexp \"^x\"")

\* The arguments hold a flag the parser does not define.
Unknown(arguments) ==
    \E i \in DOMAIN arguments :
        arguments[i].kind # "arg" /\ arguments[i].name \notin DOMAIN flags

\* C28: if the tokenizer rejects the arguments, ParseArgs returns the tokenizer's error
\* and stores it in Error before anything else: no usage is displayed, also with the
\* help flag among the arguments, no validator runs, and no positional, variadic or
\* command cell is written.
C28_TokenizerErrorFirst ==
    [][op' = "ParseArgs" =>
        \A arguments \in ArgLists :
            Unknown(arguments) /\ ParseArgs(arguments) =>
                /\ ret'.kind = "return"
                /\ HasPrefix(ret'.msg, "unknown flag: ")
                /\ Error' = ret'.msg
                /\ lists' = lists
                /\ cmdVar' = cmdVar
                /\ \A i \in DOMAIN pos : mem'[pos[i].target] = mem[pos[i].target]
                /\ commandName # NIL => mem'[commandName] = mem[commandName]
    ]_vars

\* The arguments set the help flag and give a plain argument before the unknown
\* flag: the error is returned and the registered positional's target is untouched.
C28_Witness ==
    /\ op = "ParseArgs"
    /\ HasPrefix(ret.msg, "unknown flag: ")
    /\ Error = ret.msg
    /\ HelpSet
    /\ args = <<"x">>
    /\ pos # <<>>
    /\ mem[pos[1].target] = ""

\* C29: command resolution binds before it checks the trailing tokens: on "options
\* not allowed for command: <name>" the command cell and the name cell hold the
\* matched command; on "missing command" and "invalid command" the command, name and
\* options cells are unchanged; on "insufficient number of positional arguments"
\* every fixed positional's target is unchanged.
C29_BindBeforeCheck ==
    [][op' = "ParseArgs" /\ ret'.kind = "return" =>
        /\ HasPrefix(ret'.msg, "options not allowed for command: ") =>
              /\ ret'.msg = "options not allowed for command: " \o args'[1]
              /\ cmdVar' = ImplOf(args'[1])
              /\ mem'[commandName] = args'[1]
              /\ lists' = lists
        /\ ret'.msg = "missing command" \/ HasPrefix(ret'.msg, "invalid command: ") =>
              /\ cmdVar' = cmdVar
              /\ mem'[commandName] = mem[commandName]
              /\ lists' = lists
        /\ HasPrefix(ret'.msg, "insufficient number of positional arguments") =>
              /\ \A i \in DOMAIN pos : mem'[pos[i].target] = mem[pos[i].target]
              /\ lists' = lists
    ]_vars

\* Trailing tokens were refused for want of an options cell, and the command is bound.
C29_Witness ==
    /\ op = "ParseArgs"
    /\ commandOptions = NIL
    /\ Len(args) = 2
    /\ ret.msg = "options not allowed for command: " \o args[1]
    /\ cmdVar # NIL
    /\ cmdVar = ImplOf(args[1])
    /\ mem[commandName] = args[1]

\* C30: the internal error "wtf" of the non-empty check is unreachable: after any
\* registration calls and ParseArgs, every name of the non-empty list is a defined
\* flag or a registered fixed positional.
C30_DenyEmptyResolves ==
    /\ \A i \in DOMAIN denyEmpty :
          \/ denyEmpty[i] \in DOMAIN flags
          \/ \E j \in DOMAIN pos : pos[j].name = denyEmpty[i]
    /\ ret.msg # "wtf"

\* The non-empty check ran on a name that is no flag and found its positional.
C30_Witness ==
    /\ Reached(5)
    /\ \E i \in DOMAIN denyEmpty :
          /\ denyEmpty[i] \notin DOMAIN flags
          /\ \E j \in DOMAIN pos : pos[j].name = denyEmpty[i]

====
